---- MODULE Spec2Model ----
(***************************************************************************)
(* Retirement auto-savings: the rule pipeline of app/domain.py (parse,     *)
(* override periods q, bonus periods p, aggregation windows k) and the     *)
(* tax functions of app/returns.py.                                        *)
(*                                                                         *)
(* Numbers.  domain.py computes on Python floats (IEEE-754 binary, 53      *)
(* significant bits, least positive value 2^-1074, round-half-to-even).    *)
(* The model keeps that arithmetic in miniature: a money value is an       *)
(* integer count of units of 1/2^FracBits rupee, one unit being the least  *)
(* positive float, and the result of every float operation is rounded to   *)
(* Precision significant bits, ties to even, and never finer than a unit.  *)
(* Whole amounts below 2^Precision are exact, as whole amounts below 2^53  *)
(* are in Python.  Dates are integer ticks, TicksPerSecond ticks to the    *)
(* second.                                                                 *)
(***************************************************************************)
EXTENDS Integers, Sequences, FiniteSets, TLC

VARIABLES
    pc,          \* position of the call being modelled
    expenses,    \* run_pipeline argument: <<timestamp, amount>> pairs
    q_periods,   \* override periods  [fixed, start, end]
    p_periods,   \* bonus periods     [extra, start, end]
    k_periods,   \* aggregation windows [start, end]
    step,        \* the local `step` of run_pipeline: <<date, amount, ceiling, remanent>>
    k_sums,      \* the local `k_sums` of run_pipeline: <<start, end, amount>>
    amount,      \* parse_expense argument
    parsed,      \* parse_expense result <<ceiling, remanent>>
    income,      \* tax_on_income argument; annual_income of nps_deduction, tax_benefit
    other_income,\* argument of a second tax_on_income call
    invested,    \* nps_deduction argument
    deduction,   \* nps_deduction result; tax_benefit argument nps_deduction_amount
    tax,         \* tax_on_income(income)
    other_tax,   \* tax_on_income(other_income)
    benefit,     \* tax_benefit result
    swapped,     \* the transactions with apply_p_rules applied before apply_q_rules
    principal,   \* compute_return argument `amount`; compound_amount argument
    age,         \* compute_return argument; ReturnsRequest.age
    inflation,   \* compute_return argument; ReturnsRequest.inflation (a fraction)
    kind,        \* compute_return argument: "nps" or "index"
    rate,        \* the local `rate` of compute_return; compound_amount argument
    years,       \* the local `t` of compute_return; compound_amount argument
    future,      \* the local `future` of compute_return; compound_amount result
    real,        \* the local `real` of compute_return; inflation_adjust result
    profit,      \* the local `profit` of compute_return
    tax_ben,     \* the local `tax_ben` of compute_return: <<>> is None, <<x>> is x
    endpoint,    \* the route a request is posted to
    body_transactions, \* body.transactions: <<date, amount, ceiling, remanent>>
    wage,        \* ReturnsRequest.wage
    seen,        \* the local `seen` of _filter_classify
    valid_inputs,\* the local `valid_inputs` of _filter_classify
    invalid,     \* the local `invalid` of _filter_classify: <<date, amount, message>>
    response,    \* the response body
    heap,        \* the list objects: address -> content
    call_pc,     \* position of each of two run_pipeline invocations
    call_step,   \* address held by the local `step` of each invocation
    call_k_sums  \* address held by the local `k_sums` of each invocation

parse_vars == <<amount, parsed>>

pipeline_vars == <<expenses, q_periods, p_periods, k_periods, step, k_sums>>

returns_vars == <<income, other_income, invested, deduction, tax, other_tax, benefit>>

projection_vars ==
    <<principal, age, inflation, kind, rate, years, future, real, profit, tax_ben>>

api_vars ==
    <<endpoint, body_transactions, wage, seen, valid_inputs, invalid, response>>

call_vars == <<heap, call_pc, call_step, call_k_sums>>

vars ==
    <<pc, pipeline_vars, parse_vars, returns_vars, swapped, projection_vars, api_vars,
      call_vars>>

(***************************************************************************)
(* Bounds of the model.                                                    *)
(***************************************************************************)
Precision == 10       \* significant bits of a float (53 in CPython)
TicksPerSecond == 2   \* sub-second resolution of a timestamp
MaxTx == 2            \* longest expense list
MaxPeriods == 3       \* most periods (q, p and k together) in one call
MaxAmount == 130      \* largest amount handed to parse_expense alone
MaxDelta == 1         \* incomes this many rupees around each slab bound
MaxInputs == 3        \* longest transaction list of a request body
MaxYears == 2         \* horizons from -MaxYears to MaxYears handed to compound_amount alone

(***************************************************************************)
(* Float arithmetic.                                                       *)
(***************************************************************************)
\* the least positive float is 2^-FracBits (2^-1074 in CPython)
FracBits == 21

RECURSIVE Pow2(_)
Pow2(n) == IF n = 0 THEN 1 ELSE 2 * Pow2(n - 1)

Unit == Pow2(FracBits)

Whole(n) == n * Unit

Abs(n) == IF n < 0 THEN -n ELSE n

Sign(n) == IF n < 0 THEN -1 ELSE 1

\* num / den rounded to the nearest integer, ties to the even one (num >= 0, den > 0)
RoundHalfEven(num, den) ==
    LET q == num \div den
        r == num % den
    IN  IF 2 * r > den \/ (2 * r = den /\ q % 2 = 1) THEN q + 1 ELSE q

\* the least power of two s >= t with n < 2^Precision * s
RECURSIVE ScaleDown(_, _)
ScaleDown(n, t) == IF n \div t < Pow2(Precision) THEN t ELSE ScaleDown(n, 2 * t)

\* a real value of n units as the nearest float
FRound(n) ==
    LET s == ScaleDown(Abs(n), 1)
    IN  Sign(n) * s * RoundHalfEven(Abs(n), s)

FAdd(a, b) == FRound(a + b)

FSub(a, b) == FRound(a - b)

\* the float nearest to num / den units (num >= 0, den > 0); a quotient below
\* half a unit underflows to 0
FDiv(num, den) ==
    LET s == ScaleDown(num \div den, 1)
    IN  s * RoundHalfEven(num, den * s)

\* math.ceil(a / 100) for a float a of `a` units: the quotient is rounded to a
\* float first, then taken to the next integer
CeilDiv100(a) ==
    LET m == FDiv(Abs(a), 100)
    IN  IF a >= 0 THEN -((-m) \div Unit) ELSE -(m \div Unit)

(***************************************************************************)
(* app/domain.py                                                           *)
(***************************************************************************)
\* ceiling = math.ceil(amount / 100) * 100 (a Python int); remanent = ceiling - amount
parse_expense(timestamp, amt) ==
    LET ceiling  == Whole(CeilDiv100(amt) * 100)
        remanent == FSub(ceiling, amt)
    IN  <<ceiling, remanent>>

\* ts.strftime(DATETIME_FMT) then strptime: the sub-second part is dropped
NormalizeDate(ts) == (ts \div TicksPerSecond) * TicksPerSecond

parse_expenses(exps) ==
    [i \in 1..Len(exps) |->
        LET cr == parse_expense(exps[i][1], exps[i][2])
        IN  <<NormalizeDate(exps[i][1]), exps[i][2], cr[1], cr[2]>>]

\* a half-open interval: the end is excluded
_in_range_end_exclusive(d, start, end) == start <= d /\ d < end

_in_range(d, start, end) == start <= d /\ d <= end

\* list.sort(key=start, reverse=True): stable, so equal starts keep their list order.
\* InsertDesc puts x behind every element whose start is >= x's start.
RECURSIVE InsertDesc(_, _)
InsertDesc(sorted, x) ==
    IF sorted = <<>> THEN <<x>>
    ELSE IF Head(sorted)[1] >= x[1] THEN <<Head(sorted)>> \o InsertDesc(Tail(sorted), x)
    ELSE <<x>> \o sorted

RECURSIVE SortByStartDesc(_)
SortByStartDesc(matching) ==
    IF matching = <<>> THEN <<>>
    ELSE InsertDesc(SortByStartDesc(SubSeq(matching, 1, Len(matching) - 1)),
                    matching[Len(matching)])

\* [(q.start, q.fixed) for q in q_periods if _in_range(date, q.start, q.end)]
RECURSIVE MatchingQ(_, _)
MatchingQ(date, qs) ==
    IF qs = <<>> THEN <<>>
    ELSE (IF _in_range(date, Head(qs).start, Head(qs).end)
             THEN << <<Head(qs).start, Head(qs).fixed>> >>
             ELSE <<>>) \o MatchingQ(date, Tail(qs))

QRemanentLastOfSort(t, qs) ==
    LET matching == MatchingQ(t[1], qs)
        sorted   == SortByStartDesc(matching)
    IN  IF matching # <<>> THEN sorted[Len(sorted)][2] ELSE t[4]

QRemanentAddsFixed(t, qs) ==
    LET matching == MatchingQ(t[1], qs)
    IN  IF matching # <<>> THEN FAdd(t[4], SortByStartDesc(matching)[1][2]) ELSE t[4]

\* the body of the loop of apply_q_rules, for one transaction
QRemanent(t, qs) ==
    LET matching == MatchingQ(t[1], qs)
    IN  IF matching # <<>> THEN SortByStartDesc(matching)[1][2] ELSE t[4]

\* apply_q_rules keeping only the transactions it overrides
RECURSIVE apply_q_rules_matched_only(_, _)
apply_q_rules_matched_only(transactions, qs) ==
    IF transactions = <<>> THEN <<>>
    ELSE LET t == Head(transactions)
         IN  (IF MatchingQ(t[1], qs) # <<>> THEN << <<t[1], t[2], t[3], QRemanent(t, qs)>> >>
              ELSE <<>>) \o apply_q_rules_matched_only(Tail(transactions), qs)

apply_q_rules(transactions, qs) ==
    IF qs = <<>> THEN transactions
    ELSE [i \in 1..Len(transactions) |->
            <<transactions[i][1], transactions[i][2], transactions[i][3],
              QRemanent(transactions[i], qs)>>]

\* sum(p.extra for p in p_periods if _in_range(date, p.start, p.end)): a left
\* fold of float additions from 0
RECURSIVE SumExtra(_, _, _)
SumExtra(date, ps, acc) ==
    IF ps = <<>> THEN acc
    ELSE SumExtra(date, Tail(ps),
                  IF _in_range(date, Head(ps).start, Head(ps).end)
                     THEN FAdd(acc, Head(ps).extra) ELSE acc)

RECURSIVE FirstExtra(_, _)
FirstExtra(date, ps) ==
    IF ps = <<>> THEN 0
    ELSE IF _in_range(date, Head(ps).start, Head(ps).end) THEN Head(ps).extra
    ELSE FirstExtra(date, Tail(ps))

PRemanentFirstMatchOnly(t, ps) == FAdd(t[4], FirstExtra(t[1], ps))

\* the body of the loop of apply_p_rules, for one transaction
PRemanent(t, ps) == FAdd(t[4], SumExtra(t[1], ps, 0))

apply_p_rules(transactions, ps) ==
    IF ps = <<>> THEN transactions
    ELSE [i \in 1..Len(transactions) |->
            <<transactions[i][1], transactions[i][2], transactions[i][3],
              PRemanent(transactions[i], ps)>>]

\* sum(remanent for ... in transactions if _in_range(date, k.start, k.end))
RECURSIVE SumRemanent(_, _, _)
SumRemanent(transactions, k, acc) ==
    IF transactions = <<>> THEN acc
    ELSE SumRemanent(Tail(transactions), k,
                     IF _in_range(Head(transactions)[1], k.start, k.end)
                        THEN FAdd(acc, Head(transactions)[4]) ELSE acc)

aggregate_skipping_empty(transactions, ks) ==
    LET rows == [j \in 1..Len(ks) |->
                    <<ks[j].start, ks[j].end, SumRemanent(transactions, ks[j], 0)>>]
        hit(r) == \E i \in 1..Len(transactions) : _in_range(transactions[i][1], r[1], r[2])
    IN  SelectSeq(rows, hit)

aggregate_k_periods(transactions, ks) ==
    [j \in 1..Len(ks) |-> <<ks[j].start, ks[j].end, SumRemanent(transactions, ks[j], 0)>>]

(***************************************************************************)
(* app/returns.py.  Money is an integer count of thousandths of a rupee    *)
(* and a rate a whole percentage; incomes and deductions are multiples of  *)
(* a tenth of a rupee, so that every product below is an exact integer.    *)
(***************************************************************************)
Rupees(n) == n * 1000

\* float("inf"): above every income of the model
Infinity == 2147483647

NPS_MAX_DEDUCTION == Rupees(200000)

TAX_SLABS_RatesSwapped ==
    << <<Rupees(0), 0>>, <<Rupees(700000), 0>>, <<Rupees(1000000), 15>>,
       <<Rupees(1200000), 10>>, <<Rupees(1500000), 20>>, <<Infinity, 30>> >>

\* (upper_bound, rate on amount above previous slab), rate in percent
TAX_SLABS ==
    << <<Rupees(0), 0>>, <<Rupees(700000), 0>>, <<Rupees(1000000), 10>>,
       <<Rupees(1200000), 15>>, <<Rupees(1500000), 20>>, <<Infinity, 30>> >>

Min(a, b) == IF b < a THEN b ELSE a

\* slice_ * rate
Times(slice, pct) == (slice \div 100) * pct

\* the loop of tax_on_income without its `if income <= prev_bound: break`
RECURSIVE TaxLoopNoBreak(_, _, _, _)
TaxLoopNoBreak(inc, slabs, prev_bound, acc) ==
    IF slabs = <<>> THEN acc
    ELSE TaxLoopNoBreak(inc, Tail(slabs), Head(slabs)[1],
                        acc + Times(Min(inc, Head(slabs)[1]) - prev_bound, Head(slabs)[2]))

\* the loop of tax_on_income over the slabs still to visit
RECURSIVE TaxLoop(_, _, _, _)
TaxLoop(inc, slabs, prev_bound, acc) ==
    IF slabs = <<>> \/ inc <= prev_bound THEN acc
    ELSE TaxLoop(inc, Tail(slabs), Head(slabs)[1],
                 acc + Times(Min(inc, Head(slabs)[1]) - prev_bound, Head(slabs)[2]))

tax_on_income_no_break(inc) == IF inc <= 0 THEN 0 ELSE TaxLoopNoBreak(inc, TAX_SLABS, 0, 0)

tax_on_income(inc) == IF inc <= 0 THEN 0 ELSE TaxLoop(inc, TAX_SLABS, 0, 0)

nps_deduction_uncapped(inv, annual_income) == Min(inv, annual_income \div 10)

\* min(invested, 0.1 * annual_income, NPS_MAX_DEDUCTION)
nps_deduction(inv, annual_income) ==
    LET cap_10pct == annual_income \div 10
    IN  Min(Min(inv, cap_10pct), NPS_MAX_DEDUCTION)

tax_benefit_reversed(annual_income, nps_deduction_amount) ==
    tax_on_income(annual_income - nps_deduction_amount) - tax_on_income(annual_income)

tax_benefit(annual_income, nps_deduction_amount) ==
    tax_on_income(annual_income) - tax_on_income(annual_income - nps_deduction_amount)

(***************************************************************************)
(* The projection functions of app/returns.py.  A rate or a growth factor  *)
(* is an integer count of units of 1/RateUnit, so NPS_RATE = 0.0711 is 711 *)
(* and 1 + rate is RateUnit + rate.  The code raises 1 + rate to the power *)
(* `years` in float arithmetic, rounding once; the model raises it by      *)
(* repeated squaring and rounds each product to the nearest unit, ties to  *)
(* even, so it follows the code's value to about years/RateUnit of the     *)
(* factor.                                                                 *)
(***************************************************************************)
RateUnit == 10000

NPS_RATE == 711

INDEX_RATE == 1449

\* <<q, r>> with a * b = q * c + r and 0 <= r < c, for a, b >= 0 and c > 0, by
\* doubling, so that no intermediate value is larger than the result.  (The
\* result for b \div 2 is bound by a quantifier, which has it evaluated once.)
RECURSIVE MulDivQR(_, _, _)
MulDivQR(a, b, c) ==
    IF b = 0 THEN <<0, 0>>
    ELSE CHOOSE qr \in
            {LET q2 == 2 * h[1] + (IF b % 2 = 1 THEN a \div c ELSE 0)
                 r2 == 2 * h[2] + (IF b % 2 = 1 THEN a % c ELSE 0)
             IN  <<q2 + (r2 \div c), r2 % c>> : h \in {MulDivQR(a, b \div 2, c)}} : TRUE

\* q + r / c rounded to the nearest integer, ties to even
RoundQR(qr, c) ==
    IF 2 * qr[2] > c \/ (2 * qr[2] = c /\ qr[1] % 2 = 1) THEN qr[1] + 1 ELSE qr[1]

\* a * b / c rounded to the nearest integer, ties to even (b >= 0, c > 0)
MulDiv(a, b, c) ==
    CHOOSE y \in
        {Sign(x[1]) * RoundQR(MulDivQR(Abs(x[1]), x[2], x[3]), x[3]) :
            x \in {<<a, b, c>>}} : TRUE

\* (1 + r) ** n for n >= 0, in units of 1/RateUnit, by repeated squaring
RECURSIVE Power(_, _)
Power(r, n) ==
    IF n = 0 THEN RateUnit
    ELSE CHOOSE y \in
            {IF n % 2 = 1 THEN MulDiv(MulDiv(half, half, RateUnit), RateUnit + r, RateUnit)
                          ELSE MulDiv(half, half, RateUnit) :
                half \in {Power(r, n \div 2)}} : TRUE

years_to_retirement_sixty_minus_age(a) == 60 - a

years_to_retirement(a) == IF a >= 60 THEN 5 ELSE 60 - a

compound_amount(p, r, n) ==
    IF n <= 0 THEN p ELSE MulDiv(p, Power(r, n), RateUnit)

inflation_adjust(amt, infl, n) ==
    IF n <= 0 THEN amt ELSE MulDiv(amt, RateUnit, Power(infl, n))

\* tax_ben = None
None == <<>>

Some(x) == <<x>>

\* compute_return with the index branch computing the deduction and the benefit too
compute_return_benefit_for_index(amt, a, infl, k, annual_income) ==
    LET t      == years_to_retirement(a)
        rt     == IF k = "nps" THEN NPS_RATE ELSE INDEX_RATE
        fut    == compound_amount(amt, rt, t)
        re     == inflation_adjust(fut, infl, t)
        ded    == nps_deduction(amt, annual_income)
    IN  [t |-> t, rate |-> rt, future |-> fut, real |-> re,
         profit |-> IF k = "nps" THEN re - amt ELSE re,
         ded |-> Some(ded), tax_ben |-> Some(tax_benefit(annual_income, ded))]

\* the locals of compute_return at its return; the function returns
\* (profit, tax_ben, future)
compute_return(amt, a, infl, k, annual_income) ==
    LET t      == years_to_retirement(a)
        rt     == IF k = "nps" THEN NPS_RATE ELSE INDEX_RATE
        fut    == compound_amount(amt, rt, t)
        re     == inflation_adjust(fut, infl, t)
        ded    == nps_deduction(amt, annual_income)
    IN  [t |-> t, rate |-> rt, future |-> fut, real |-> re,
         profit |-> IF k = "nps" THEN re - amt ELSE re,
         ded |-> IF k = "nps" THEN Some(ded) ELSE None,
         tax_ben |-> IF k = "nps" THEN Some(tax_benefit(annual_income, ded)) ELSE None]

(***************************************************************************)
(* Inputs of the model.                                                    *)
(***************************************************************************)
Sec(n) == n * TicksPerSecond

\* sequences over S of length at most n
RECURSIVE SeqsUpTo(_, _)
SeqsUpTo(S, n) ==
    IF n = 0 THEN {<<>>}
    ELSE LET shorter == SeqsUpTo(S, n - 1)
         IN  shorter \cup {Append(s, x) : s \in {t \in shorter : Len(t) = n - 1}, x \in S}

\* expenses at 0 s, 1 s + one tick and 2 s; remanents 50, 80 and 0
ExpenseOptions ==
    { <<Sec(0), Whole(250)>>, <<Sec(1) + 1, Whole(620)>>, <<Sec(2), Whole(300)>> }

\* two periods starting at 0 s and two starting at 1 s, each with its own amount
QOptions ==
    { [fixed |-> Whole(10), start |-> Sec(0), end |-> Sec(2)],
      [fixed |-> Whole(20), start |-> Sec(0), end |-> Sec(1)],
      [fixed |-> Whole(30), start |-> Sec(1), end |-> Sec(2)],
      [fixed |-> Whole(0),  start |-> Sec(1), end |-> Sec(1)] }

POptions ==
    { [extra |-> Whole(25), start |-> Sec(0), end |-> Sec(2)],
      [extra |-> Whole(5),  start |-> Sec(1), end |-> Sec(2)],
      [extra |-> Whole(7),  start |-> Sec(1), end |-> Sec(1)] }

KOptions ==
    { [start |-> Sec(0), end |-> Sec(2)],
      [start |-> Sec(1), end |-> Sec(1)],
      [start |-> Sec(3), end |-> Sec(4)] }

\* test_run_pipeline_pdf_example, dates in seconds from 2023-01-01 00:00:00
Day(month_days, day, hh, mm) == Sec(((month_days + day - 1) * 24 + hh) * 3600 + mm * 60)

PdfExpenses ==
    << <<Day(273, 12, 20, 15), Whole(250)>>, <<Day(31, 28, 15, 49), Whole(375)>>,
       <<Day(181, 1, 21, 59), Whole(620)>>,  <<Day(334, 17, 8, 9), Whole(480)>> >>

PdfQ == << [fixed |-> Whole(0), start |-> Day(181, 1, 0, 0), end |-> Day(181, 31, 23, 59)] >>

PdfP == << [extra |-> Whole(25), start |-> Day(273, 1, 8, 0), end |-> Day(334, 31, 19, 59)] >>

PdfK ==
    << [start |-> Day(59, 1, 0, 0), end |-> Day(304, 30, 23, 59)],
       [start |-> Day(0, 1, 0, 0),  end |-> Day(334, 31, 23, 59)] >>

(***************************************************************************)
(* run_pipeline, one action per line of its body.                          *)
(***************************************************************************)
\* the order of the four statements of run_pipeline's body
AfterSwappedRules(at) ==
    CASE at = "parse" -> "p"
      [] at = "p" -> "q"
      [] at = "q" -> "k"
      [] at = "k" -> "done"

After(at) ==
    CASE at = "parse" -> "q"
      [] at = "q" -> "p"
      [] at = "p" -> "k"
      [] at = "k" -> "done"

\* compute_return and the functions it calls are not being called
NoProjection ==
    /\ principal = 0
    /\ age = 0
    /\ inflation = 0
    /\ kind = ""
    /\ rate = 0
    /\ years = 0
    /\ future = 0
    /\ real = 0
    /\ profit = 0
    /\ tax_ben = <<>>

\* no request is being served
NoRequest ==
    /\ endpoint = ""
    /\ body_transactions = <<>>
    /\ wage = 0
    /\ seen = {}
    /\ valid_inputs = <<>>
    /\ invalid = <<>>
    /\ response = <<>>

\* no two invocations are being interleaved
NoCalls ==
    /\ heap = <<>>
    /\ call_pc = <<>>
    /\ call_step = <<>>
    /\ call_k_sums = <<>>

\* parse_expense is not being called on its own
NoParse ==
    /\ amount = 0
    /\ parsed = <<>>

\* no function of returns.py is being called, and no rule order is being compared
NoReturns ==
    /\ swapped = <<>>
    /\ income = 0
    /\ other_income = 0
    /\ invested = 0
    /\ deduction = 0
    /\ tax = 0
    /\ other_tax = 0
    /\ benefit = 0

InitPipeline ==
    /\ pc = "parse"
    /\ \/ /\ expenses \in SeqsUpTo(ExpenseOptions, MaxTx)
          /\ q_periods \in SeqsUpTo(QOptions, MaxPeriods)
          /\ p_periods \in SeqsUpTo(POptions, MaxPeriods - Len(q_periods))
          /\ k_periods \in SeqsUpTo(KOptions, MaxPeriods - Len(q_periods) - Len(p_periods))
       \/ /\ expenses = PdfExpenses
          /\ q_periods = PdfQ
          /\ p_periods = PdfP
          /\ k_periods = PdfK
    /\ step = <<>>
    /\ k_sums = <<>>
    /\ NoParse
    /\ NoReturns
    /\ NoProjection
    /\ NoRequest
    /\ NoCalls

\* step = parse_expenses(expenses)
ParseStep ==
    /\ pc = "parse"
    /\ step' = parse_expenses(expenses)
    /\ pc' = After(pc)
    /\ UNCHANGED <<expenses, q_periods, p_periods, k_periods, k_sums, parse_vars, returns_vars, swapped,
                   projection_vars, api_vars, call_vars>>

\* step = apply_q_rules(step, q_periods)
QStep ==
    /\ pc = "q"
    /\ step' = apply_q_rules(step, q_periods)
    /\ pc' = After(pc)
    /\ UNCHANGED <<expenses, q_periods, p_periods, k_periods, k_sums, parse_vars, returns_vars, swapped,
                   projection_vars, api_vars, call_vars>>

\* step = apply_p_rules(step, p_periods)
PStep ==
    /\ pc = "p"
    /\ step' = apply_p_rules(step, p_periods)
    /\ pc' = After(pc)
    /\ UNCHANGED <<expenses, q_periods, p_periods, k_periods, k_sums, parse_vars, returns_vars, swapped,
                   projection_vars, api_vars, call_vars>>

\* k_sums = aggregate_k_periods(step, k_periods); return step, k_sums
KStep ==
    /\ pc = "k"
    /\ k_sums' = aggregate_k_periods(step, k_periods)
    /\ pc' = After(pc)
    /\ UNCHANGED <<expenses, q_periods, p_periods, k_periods, step, parse_vars, returns_vars, swapped,
                   projection_vars, api_vars, call_vars>>

\* run_pipeline is not being called
NoPipeline ==
    /\ expenses = <<>>
    /\ q_periods = <<>>
    /\ p_periods = <<>>
    /\ k_periods = <<>>
    /\ step = <<>>
    /\ k_sums = <<>>

(***************************************************************************)
(* parse_expense called on its own, on every float amount of the bounded   *)
(* range (negative ones included: the function does not reject them).      *)
(***************************************************************************)
\* the floats of magnitude up to MaxAmount rupees: Precision bits times a power of two
Floats ==
    {m * Pow2(e) : m \in 0..(Pow2(Precision) - 1), e \in 0..(30 - Precision)}

ParseAmounts ==
    {s * n : s \in {-1, 1}, n \in {f \in Floats : f <= Whole(MaxAmount)}}

InitParse ==
    /\ pc = "call"
    /\ amount \in ParseAmounts
    /\ parsed = <<>>
    /\ NoPipeline
    /\ NoReturns
    /\ NoProjection
    /\ NoRequest
    /\ NoCalls

ParseExpense ==
    /\ pc = "call"
    /\ parsed' = parse_expense(0, amount)
    /\ pc' = "returned"
    /\ UNCHANGED <<amount, pipeline_vars, returns_vars, swapped,
                   projection_vars, api_vars, call_vars>>

SpecParse == InitParse /\ [][ParseExpense]_vars

(***************************************************************************)
(* The functions of returns.py, each called on its own.                    *)
(***************************************************************************)
\* the slab bounds, the incomes within MaxDelta rupees of one, and incomes
\* inside each band and below zero
SlabBounds == {0, 700000, 1000000, 1200000, 1500000}

Incomes ==
    {Rupees(b + d) : b \in SlabBounds, d \in -MaxDelta..MaxDelta}
    \cup {Rupees(n) : n \in {-50000, 350000, 600000, 850000, 1100000, 1350000, 2100000}}

Investments == {Rupees(n) : n \in {-5, 0, 145, 60000, 200000, 200001, 300000}}

\* deductions handed to tax_benefit directly: any number, not only a capped one
Deductions ==
    {Rupees(n) : n \in {-1000, 0, 1, 145, 60000, 200000, 800000}} \cup {100, Rupees(70000) + 100}

NoTaxResult ==
    /\ swapped = <<>>
    /\ tax = 0
    /\ other_tax = 0
    /\ benefit = 0

\* tax_on_income called on one income, then on another
InitTax ==
    /\ pc = "call"
    /\ income \in Incomes
    /\ other_income \in Incomes
    /\ invested = 0
    /\ deduction = 0
    /\ NoTaxResult
    /\ NoParse
    /\ NoPipeline
    /\ NoProjection
    /\ NoRequest
    /\ NoCalls

TaxOnIncome ==
    /\ pc = "call"
    /\ tax' = tax_on_income(income)
    /\ pc' = "second call"
    /\ UNCHANGED <<income, other_income, invested, deduction, other_tax, benefit,
                   parse_vars, pipeline_vars, swapped,
                   projection_vars, api_vars, call_vars>>

TaxOnOtherIncome ==
    /\ pc = "second call"
    /\ other_tax' = tax_on_income(other_income)
    /\ pc' = "returned"
    /\ UNCHANGED <<income, other_income, invested, deduction, tax, benefit,
                   parse_vars, pipeline_vars, swapped,
                   projection_vars, api_vars, call_vars>>

SpecTax == InitTax /\ [][TaxOnIncome \/ TaxOnOtherIncome]_vars

InitDeduction ==
    /\ pc = "call"
    /\ income \in Incomes
    /\ invested \in Investments
    /\ other_income = 0
    /\ deduction = 0
    /\ NoTaxResult
    /\ NoParse
    /\ NoPipeline
    /\ NoProjection
    /\ NoRequest
    /\ NoCalls

NpsDeduction ==
    /\ pc = "call"
    /\ deduction' = nps_deduction(invested, income)
    /\ pc' = "returned"
    /\ UNCHANGED <<income, other_income, invested, tax, other_tax, benefit,
                   parse_vars, pipeline_vars, swapped,
                   projection_vars, api_vars, call_vars>>

SpecDeduction == InitDeduction /\ [][NpsDeduction]_vars

InitBenefit ==
    /\ pc = "call"
    /\ income \in Incomes
    /\ deduction \in Deductions
    /\ other_income = 0
    /\ invested = 0
    /\ NoTaxResult
    /\ NoParse
    /\ NoPipeline
    /\ NoProjection
    /\ NoRequest
    /\ NoCalls

TaxBenefit ==
    /\ pc = "call"
    /\ benefit' = tax_benefit(income, deduction)
    /\ pc' = "returned"
    /\ UNCHANGED <<income, other_income, invested, deduction, tax, other_tax,
                   parse_vars, pipeline_vars, swapped,
                   projection_vars, api_vars, call_vars>>

SpecBenefit == InitBenefit /\ [][TaxBenefit]_vars

(***************************************************************************)
(* compute_return called on its own, for every age the request schema      *)
(* admits and one below; and compound_amount followed by inflation_adjust  *)
(* called directly, with horizons on both sides of 0.                      *)
(***************************************************************************)
AgeLimit == 120

Ages == -1..(AgeLimit - 1)

Principals == {Rupees(0), Rupees(145)}

\* 0 and 5.5 % a year
Inflations == {0, 550}

AnnualIncomes == {Rupees(0), Rupees(600000), Rupees(800000)}

NoTax ==
    /\ other_income = 0
    /\ invested = 0
    /\ tax = 0
    /\ other_tax = 0
    /\ benefit = 0
    /\ swapped = <<>>

InitReturn ==
    /\ \/ /\ pc = "compute_return"
          /\ age \in Ages
          /\ kind \in {"nps", "index"}
          /\ income \in AnnualIncomes
          /\ rate = 0
          /\ years = 0
       \/ /\ pc = "compound_amount"
          /\ age = 0
          /\ kind = ""
          /\ income = 0
          /\ rate \in {NPS_RATE, INDEX_RATE}
          /\ years \in -MaxYears..MaxYears
    /\ principal \in Principals
    /\ inflation \in Inflations
    /\ future = 0
    /\ real = 0
    /\ profit = 0
    /\ deduction = None
    /\ tax_ben = None
    /\ NoTax
    /\ NoParse
    /\ NoPipeline
    /\ NoRequest
    /\ NoCalls

ComputeReturn ==
    /\ pc = "compute_return"
    /\ LET r == compute_return(principal, age, inflation, kind, income)
       IN  /\ years' = r.t
           /\ rate' = r.rate
           /\ future' = r.future
           /\ real' = r.real
           /\ profit' = r.profit
           /\ deduction' = r.ded
           /\ tax_ben' = r.tax_ben
    /\ pc' = "compute_return returned"
    /\ UNCHANGED <<principal, age, inflation, kind, income, other_income, invested, tax,
                   other_tax, benefit, swapped, parse_vars, pipeline_vars, api_vars,
                   call_vars>>

CompoundAmount ==
    /\ pc = "compound_amount"
    /\ future' = compound_amount(principal, rate, years)
    /\ pc' = "inflation_adjust"
    /\ UNCHANGED <<principal, age, inflation, kind, rate, years, real, profit, tax_ben,
                   returns_vars, swapped, parse_vars, pipeline_vars, api_vars, call_vars>>

InflationAdjust ==
    /\ pc = "inflation_adjust"
    /\ real' = inflation_adjust(future, inflation, years)
    /\ pc' = "inflation_adjust returned"
    /\ UNCHANGED <<principal, age, inflation, kind, rate, years, future, profit, tax_ben,
                   returns_vars, swapped, parse_vars, pipeline_vars, api_vars, call_vars>>

SpecReturn == InitReturn /\ [][ComputeReturn \/ CompoundAmount \/ InflationAdjust]_vars

(***************************************************************************)
(* app/routers: the handlers of /transactions:filter, /returns:nps and     *)
(* /returns:index.  A request body is what the schema let through: its     *)
(* transactions carry the ceiling and remanent the schema computed, and    *)
(* an amount of either sign (Transaction.amount and                        *)
(* FilterTransactionInput.amount are unconstrained floats).                *)
(***************************************************************************)
\* the loop of _filter_classify over the inputs still to visit
RECURSIVE FilterLoop(_, _)
FilterLoop(inputs, st) ==
    IF inputs = <<>> THEN st
    ELSE LET t   == Head(inputs)
             key == <<t[1], t[2]>>
         IN  IF t[2] < 0
             THEN FilterLoop(Tail(inputs),
                     [st EXCEPT !.invalid =
                         Append(@, <<t[1], t[2], "Negative amounts are not allowed">>)])
             ELSE IF key \in st.seen
             THEN FilterLoop(Tail(inputs),
                     [st EXCEPT !.invalid =
                         Append(@, <<t[1], t[2], "Duplicate transaction">>)])
             ELSE FilterLoop(Tail(inputs),
                     [st EXCEPT !.seen = @ \cup {key},
                                !.valid_inputs = Append(@, t)])

\* _filter_classify without its `if key in seen` branch
RECURSIVE FilterLoopNoDuplicateCheck(_, _)
FilterLoopNoDuplicateCheck(inputs, st) ==
    IF inputs = <<>> THEN st
    ELSE LET t   == Head(inputs)
             key == <<t[1], t[2]>>
         IN  IF t[2] < 0
             THEN FilterLoopNoDuplicateCheck(Tail(inputs),
                     [st EXCEPT !.invalid =
                         Append(@, <<t[1], t[2], "Negative amounts are not allowed">>)])
             ELSE FilterLoopNoDuplicateCheck(Tail(inputs),
                     [st EXCEPT !.seen = @ \cup {key},
                                !.valid_inputs = Append(@, t)])

_filter_classify_no_duplicate_check(inputs, qs, ks) ==
    FilterLoopNoDuplicateCheck(inputs, [seen |-> {}, valid_inputs |-> <<>>, invalid |-> <<>>])

\* the locals of _filter_classify at its return; the function returns
\* (valid_inputs, invalid)
_filter_classify(inputs, qs, ks) ==
    FilterLoop(inputs, [seen |-> {}, valid_inputs |-> <<>>, invalid |-> <<>>])

\* parse -> q -> p -> k on the request's transactions, as they came
_run_returns_pipeline(txs, qs, ps, ks) ==
    LET exps == [i \in 1..Len(txs) |-> <<txs[i][1], txs[i][2]>>]
        raw  == apply_p_rules(apply_q_rules(parse_expenses(exps), qs), ps)
    IN  <<raw, aggregate_k_periods(raw, ks)>>

\* sum(t[n] for t in raw): a left fold of float additions from 0
RECURSIVE SumField(_, _, _)
SumField(raw, n, acc) ==
    IF raw = <<>> THEN acc ELSE SumField(Tail(raw), n, FAdd(acc, Head(raw)[n]))

\* a float amount of the pipeline as thousandths of a rupee
Thousandths(a) == MulDiv(a, 1000, Unit)

\* round(x, 2)
Round2(x) == 10 * MulDiv(x, 1, 10)

\* one SavingsByDatesItem of /returns:nps and /returns:index
SavingsItem(row, r, k) ==
    [start |-> row[1], end |-> row[2], amount |-> row[3],
     profits |-> IF k = "nps" THEN Round2(r.profit) ELSE 0,
     return_ |-> IF k = "nps" THEN None ELSE Some(Round2(r.profit)),
     taxBenefit |-> IF r.tax_ben # None THEN Round2(r.tax_ben[1]) ELSE 0]

\* the savingsByDates of /returns:nps and /returns:index
SavingsByDates(sums, a, infl, k, annual_income) ==
    [j \in 1..Len(sums) |->
        CHOOSE item \in
            {SavingsItem(sums[j], r, k) :
                r \in {compute_return(Thousandths(sums[j][3]), a, infl, k, annual_income)}} :
            TRUE]

\* the schema's compute_ceiling_remanent on a transaction that carries neither
WithCeilingRemanent(d, a) == <<d, a, parse_expense(d, a)[1], parse_expense(d, a)[2]>>

\* transactions at two dates: one amount at both dates, a second amount and a
\* negative amount
BodyTransactionOptions ==
    { WithCeilingRemanent(Sec(0), Whole(150)), WithCeilingRemanent(Sec(1), Whole(150)),
      WithCeilingRemanent(Sec(1), Whole(120)), WithCeilingRemanent(Sec(0), -Whole(150)) }

\* monthly wages of 50000 and 75000: annual incomes in the 0 % and the 10 % slab
Wages == {Rupees(50000), Rupees(75000)}

InitApi ==
    /\ pc = "request"
    /\ body_transactions \in SeqsUpTo(BodyTransactionOptions, MaxInputs)
    /\ q_periods \in SeqsUpTo({[fixed |-> Whole(30), start |-> Sec(1), end |-> Sec(2)]}, 1)
    /\ p_periods \in SeqsUpTo({[extra |-> Whole(25), start |-> Sec(0), end |-> Sec(2)]}, 1)
    /\ k_periods \in SeqsUpTo({[start |-> Sec(0), end |-> Sec(2)],
                                [start |-> Sec(1), end |-> Sec(1)]}, 1)
    /\ \/ /\ endpoint = "/transactions:filter"
          /\ wage = 0
          /\ age = 0
          /\ inflation = 0
       \/ /\ endpoint \in {"/returns:nps", "/returns:index"}
          /\ wage \in Wages
          /\ age = 29
          /\ inflation = 550
    /\ expenses = <<>>
    /\ step = <<>>
    /\ k_sums = <<>>
    /\ seen = {}
    /\ valid_inputs = <<>>
    /\ invalid = <<>>
    /\ response = <<>>
    /\ principal = 0
    /\ kind = ""
    /\ rate = 0
    /\ years = 0
    /\ future = 0
    /\ real = 0
    /\ profit = 0
    /\ tax_ben = None
    /\ NoParse
    /\ NoReturns
    /\ NoCalls

\* filter_transactions
FilterTransactions ==
    /\ pc = "request"
    /\ endpoint = "/transactions:filter"
    /\ LET c   == _filter_classify(body_transactions, q_periods, k_periods)
           raw == apply_p_rules(apply_q_rules(c.valid_inputs, q_periods), p_periods)
           sums == aggregate_k_periods(raw, k_periods)
       IN  /\ seen' = c.seen
           /\ valid_inputs' = c.valid_inputs
           /\ invalid' = c.invalid
           /\ step' = raw
           /\ k_sums' = sums
           /\ response' =
                 [valid |-> [i \in 1..Len(raw) |->
                               Append(raw[i],
                                      \E j \in 1..Len(k_periods) :
                                          _in_range(raw[i][1], k_periods[j].start,
                                                    k_periods[j].end))],
                  invalid |-> c.invalid,
                  savingsByDates |-> sums]
    /\ pc' = "responded"
    /\ UNCHANGED <<expenses, q_periods, p_periods, k_periods, endpoint, body_transactions,
                   wage, parse_vars, returns_vars, swapped, projection_vars, call_vars>>

\* returns_nps
ReturnsNps ==
    /\ pc = "request"
    /\ endpoint = "/returns:nps"
    /\ \E out \in {_run_returns_pipeline(body_transactions, q_periods, p_periods, k_periods)} :
          LET annual_income == wage * 12
          IN  /\ step' = out[1]
              /\ k_sums' = out[2]
              /\ response' =
                    [transactionsTotalAmount |-> SumField(out[1], 2, 0),
                     totalCeiling |-> SumField(out[1], 3, 0),
                     savingsByDates |->
                         SavingsByDates(out[2], age, inflation, "nps", annual_income)]
    /\ pc' = "responded"
    /\ UNCHANGED <<expenses, q_periods, p_periods, k_periods, endpoint, body_transactions,
                   wage, seen, valid_inputs, invalid, parse_vars, returns_vars, swapped,
                   projection_vars, call_vars>>

\* returns_index
ReturnsIndex ==
    /\ pc = "request"
    /\ endpoint = "/returns:index"
    /\ \E out \in {_run_returns_pipeline(body_transactions, q_periods, p_periods, k_periods)} :
          /\ step' = out[1]
          /\ k_sums' = out[2]
          /\ response' =
                [transactionsTotalAmount |-> SumField(out[1], 2, 0),
                 totalCeiling |-> SumField(out[1], 3, 0),
                 savingsByDates |-> SavingsByDates(out[2], age, inflation, "index", 0)]
    /\ pc' = "responded"
    /\ UNCHANGED <<expenses, q_periods, p_periods, k_periods, endpoint, body_transactions,
                   wage, seen, valid_inputs, invalid, parse_vars, returns_vars, swapped,
                   projection_vars, call_vars>>

SpecApi == InitApi /\ [][FilterTransactions \/ ReturnsNps \/ ReturnsIndex]_vars

(***************************************************************************)
(* Two invocations of run_pipeline on the same argument lists, their       *)
(* operations interleaved in any order.  Lists are objects: the heap maps  *)
(* an address (an index of `heap`) to the content of the list that lives   *)
(* there, and a local variable holds an address.  The four argument lists  *)
(* live at ExpensesAt, QAt, PAt and KAt.  The tuples and period objects    *)
(* inside a list are immutable and are kept by value.                      *)
(***************************************************************************)
Invocations == {1, 2}

ExpensesAt == 1

QAt == 2

PAt == 3

KAt == 4

\* a result built in a list of the callee's own (`out = []`, `result = []`,
\* `list(transactions)`): the heap with the new list on it, and its address
NewList(h, content) == <<Append(h, content), Len(h) + 1>>

\* apply_q_rules with `return transactions` on the empty-period path
apply_q_rules_returning_argument(h, t, q) ==
    IF h[q] = <<>> THEN <<h, t>> ELSE NewList(h, apply_q_rules(h[t], h[q]))

parse_expenses_call(h, e) == NewList(h, parse_expenses(h[e]))

apply_q_rules_call(h, t, q) == NewList(h, apply_q_rules(h[t], h[q]))

apply_p_rules_call(h, t, pp) == NewList(h, apply_p_rules(h[t], h[pp]))

aggregate_k_periods_call(h, t, k) == NewList(h, aggregate_k_periods(h[t], h[k]))

InitCalls ==
    /\ pc = "calls"
    /\ expenses \in SeqsUpTo(ExpenseOptions, MaxTx)
    /\ q_periods \in SeqsUpTo({[fixed |-> Whole(30), start |-> Sec(1), end |-> Sec(2)]}, 1)
    /\ p_periods \in SeqsUpTo({[extra |-> Whole(25), start |-> Sec(0), end |-> Sec(2)]}, 1)
    /\ k_periods \in SeqsUpTo({[start |-> Sec(1), end |-> Sec(2)]}, 1)
    /\ heap = <<expenses, q_periods, p_periods, k_periods>>
    /\ call_pc = [i \in Invocations |-> "parse"]
    /\ call_step = [i \in Invocations |-> 0]
    /\ call_k_sums = [i \in Invocations |-> 0]
    /\ step = <<>>
    /\ k_sums = <<>>
    /\ NoParse
    /\ NoReturns
    /\ NoProjection
    /\ NoRequest

\* step = parse_expenses(expenses)
ParseCall(i) ==
    /\ call_pc[i] = "parse"
    /\ \E r \in {parse_expenses_call(heap, ExpensesAt)} :
          /\ heap' = r[1]
          /\ call_step' = [call_step EXCEPT ![i] = r[2]]
    /\ call_pc' = [call_pc EXCEPT ![i] = After("parse")]
    /\ UNCHANGED <<pc, call_k_sums, pipeline_vars, parse_vars, returns_vars, swapped,
                   projection_vars, api_vars>>

\* step = apply_q_rules(step, q_periods)
QCall(i) ==
    /\ call_pc[i] = "q"
    /\ \E r \in {apply_q_rules_call(heap, call_step[i], QAt)} :
          /\ heap' = r[1]
          /\ call_step' = [call_step EXCEPT ![i] = r[2]]
    /\ call_pc' = [call_pc EXCEPT ![i] = After("q")]
    /\ UNCHANGED <<pc, call_k_sums, pipeline_vars, parse_vars, returns_vars, swapped,
                   projection_vars, api_vars>>

\* step = apply_p_rules(step, p_periods)
PCall(i) ==
    /\ call_pc[i] = "p"
    /\ \E r \in {apply_p_rules_call(heap, call_step[i], PAt)} :
          /\ heap' = r[1]
          /\ call_step' = [call_step EXCEPT ![i] = r[2]]
    /\ call_pc' = [call_pc EXCEPT ![i] = After("p")]
    /\ UNCHANGED <<pc, call_k_sums, pipeline_vars, parse_vars, returns_vars, swapped,
                   projection_vars, api_vars>>

\* k_sums = aggregate_k_periods(step, k_periods)
KCall(i) ==
    /\ call_pc[i] = "k"
    /\ \E r \in {aggregate_k_periods_call(heap, call_step[i], KAt)} :
          /\ heap' = r[1]
          /\ call_k_sums' = [call_k_sums EXCEPT ![i] = r[2]]
    /\ call_pc' = [call_pc EXCEPT ![i] = After("k")]
    /\ UNCHANGED <<pc, call_step, pipeline_vars, parse_vars, returns_vars, swapped,
                   projection_vars, api_vars>>

NextCalls ==
    \E i \in Invocations : ParseCall(i) \/ QCall(i) \/ PCall(i) \/ KCall(i)

SpecCalls == InitCalls /\ [][NextCalls]_vars

(***************************************************************************)
(* The two rule steps of run_pipeline, followed by the same two functions  *)
(* applied to the same parsed expenses in the other order.                 *)
(***************************************************************************)
InitOrder ==
    /\ pc = "parse"
    /\ expenses \in SeqsUpTo(ExpenseOptions, MaxTx)
    /\ q_periods \in SeqsUpTo(QOptions, MaxPeriods)
    /\ p_periods \in SeqsUpTo(POptions, MaxPeriods - Len(q_periods))
    /\ k_periods = <<>>
    /\ step = <<>>
    /\ k_sums = <<>>
    /\ NoParse
    /\ NoReturns
    /\ NoProjection
    /\ NoRequest
    /\ NoCalls

BonusThenOverride ==
    /\ pc = "k"
    /\ swapped' = apply_q_rules(apply_p_rules(parse_expenses(expenses), p_periods), q_periods)
    /\ pc' = "compared"
    /\ UNCHANGED <<pipeline_vars, parse_vars, returns_vars, projection_vars, api_vars,
                   call_vars>>

SpecOrder == InitOrder /\ [][ParseStep \/ QStep \/ PStep \/ BonusThenOverride]_vars

(***************************************************************************)
(* run_pipeline on amounts that are not whole: a half rupee, and the least *)
(* positive float.                                                         *)
(***************************************************************************)
FloatExpenseOptions ==
    { <<Sec(0), 1>>, <<Sec(1), Whole(39) \div 2>>, <<Sec(1) + 1, Whole(250)>>,
      <<Sec(2), 0>> }

InitFloats ==
    /\ pc = "parse"
    /\ expenses \in SeqsUpTo(FloatExpenseOptions, MaxTx)
    /\ q_periods \in SeqsUpTo(QOptions, 1)
    /\ p_periods \in SeqsUpTo(POptions, 1)
    /\ k_periods \in SeqsUpTo(KOptions, 1)
    /\ step = <<>>
    /\ k_sums = <<>>
    /\ NoParse
    /\ NoReturns
    /\ NoProjection
    /\ NoRequest
    /\ NoCalls

SpecFloats == InitFloats /\ [][ParseStep \/ QStep \/ PStep \/ KStep]_vars

Init == InitPipeline

Next == ParseStep \/ QStep \/ PStep \/ KStep

Spec == Init /\ [][Next]_vars

(***************************************************************************)
(* Vocabulary of the properties: stated over sets of list positions, with  *)
(* exact integer arithmetic.                                               *)
(***************************************************************************)
Contains(period, d) == period.start <= d /\ d <= period.end

\* positions of the periods of ps that contain date d
Matches(ps, d) == {j \in 1..Len(ps) : Contains(ps[j], d)}

\* j is the matching period with the latest start, the first listed among equals
Wins(qs, d, j) ==
    /\ j \in Matches(qs, d)
    /\ \A k \in Matches(qs, d) :
          \/ qs[k].start < qs[j].start
          \/ (qs[k].start = qs[j].start /\ j <= k)

\* positions of the transactions of txs dated within window k
InWindow(txs, k) == {i \in 1..Len(txs) : Contains(k, txs[i][1])}

RECURSIVE ExtraOver(_, _)
ExtraOver(ps, J) ==
    IF J = {} THEN 0
    ELSE LET j == CHOOSE x \in J : TRUE IN ps[j].extra + ExtraOver(ps, J \ {j})

RECURSIVE RemanentOver(_, _)
RemanentOver(txs, I) ==
    IF I = {} THEN 0
    ELSE LET i == CHOOSE x \in I : TRUE IN txs[i][4] + RemanentOver(txs, I \ {i})

\* the remanent the override step leaves on transaction t
OverrideBase(t, qs) ==
    IF Matches(qs, t[1]) = {} THEN t[3] - t[2]
    ELSE qs[CHOOSE j \in 1..Len(qs) : Wins(qs, t[1], j)].fixed

(***************************************************************************)
(* C1.  After apply_q_rules, a transaction whose date lies in at least one *)
(* override period carries the fixed amount of exactly one period: the     *)
(* matching period with the latest start, and among matching periods       *)
(* sharing that start the one listed first.                                *)
(***************************************************************************)
C1_LatestStartFirstListedWins ==
    pc = "p" =>
        \A i \in 1..Len(step) :
            Matches(q_periods, step[i][1]) # {} =>
                \E j \in 1..Len(q_periods) :
                    /\ Wins(q_periods, step[i][1], j)
                    /\ step[i][4] = q_periods[j].fixed

\* a transaction matched by three periods, two of them tied on the latest start
C1_Witness ==
    /\ pc = "p"
    /\ \E i \in 1..Len(step) : \E j, k, l \in Matches(q_periods, step[i][1]) :
          /\ j < k
          /\ q_periods[j].start = q_periods[k].start
          /\ q_periods[l].start < q_periods[j].start
          /\ q_periods[j].fixed # q_periods[k].fixed
          /\ Wins(q_periods, step[i][1], j)
          /\ step[i][4] = q_periods[j].fixed

(***************************************************************************)
(* C2.  run_pipeline returns one transaction per expense, in order, dated  *)
(* at the expense's second; its remanent is B + S with S the sum of extra  *)
(* over the bonus periods containing its date and B the winning override   *)
(* period's fixed amount, or ceiling - amount when no override period      *)
(* contains the date; each window sum adds these final remanents.  The     *)
(* reference example gives 75, 25, 0, 45 and window sums 75 and 145.       *)
(***************************************************************************)
FinalRemanent(t) ==
    OverrideBase(t, q_periods) + ExtraOver(p_periods, Matches(p_periods, t[1]))

C2_PipelineOrder ==
    pc = "done" =>
        /\ Len(step) = Len(expenses)
        /\ \A i \in 1..Len(step) :
              /\ step[i][2] = expenses[i][2]
              /\ step[i][1] % TicksPerSecond = 0
              /\ step[i][1] <= expenses[i][1]
              /\ expenses[i][1] < step[i][1] + TicksPerSecond
              /\ step[i][4] = FinalRemanent(step[i])
        /\ Len(k_sums) = Len(k_periods)
        /\ \A j \in 1..Len(k_sums) :
              k_sums[j][3] = RemanentOver(step, InWindow(step, k_periods[j]))
        /\ expenses = PdfExpenses =>
              /\ [i \in 1..4 |-> step[i][4]] = <<Whole(75), Whole(25), Whole(0), Whole(45)>>
              /\ [j \in 1..2 |-> k_sums[j][3]] = <<Whole(75), Whole(145)>>

\* a transaction that is overridden and then receives a bonus, inside a window
C2_Witness ==
    /\ pc = "done"
    /\ \E i \in 1..Len(step) : \E j \in 1..Len(k_periods) :
          /\ Matches(q_periods, step[i][1]) # {}
          /\ Matches(p_periods, step[i][1]) # {}
          /\ Contains(k_periods[j], step[i][1])
          /\ step[i][4] # step[i][3] - step[i][2]
          /\ step[i][4] > OverrideBase(step[i], q_periods)
          /\ k_sums[j][3] >= step[i][4]

\* the reference example has run to its end
C2_WitnessPdf ==
    /\ pc = "done"
    /\ expenses = PdfExpenses
    /\ k_sums[2][3] = Whole(145)

(***************************************************************************)
(* C3.  For every amount >= 0, parse_expense returns a ceiling that is a   *)
(* multiple of 100 with ceiling >= amount and ceiling - 100 < amount, and  *)
(* a remanent = ceiling - amount with 0 <= remanent < 100; a multiple of   *)
(* 100 (0 included) gives ceiling = amount and remanent = 0; and           *)
(* ceiling - remanent == amount.  The two equations are evaluated as the   *)
(* program evaluates them, in float arithmetic.                            *)
(***************************************************************************)
C3_CeilingAndRemanent ==
    (pc = "returned" /\ amount >= 0) =>
        LET ceiling == parsed[1]
            remanent == parsed[2]
        IN  /\ ceiling % Whole(100) = 0
            /\ ceiling >= amount
            /\ ceiling - Whole(100) < amount
            /\ remanent = FSub(ceiling, amount)
            /\ 0 <= remanent
            /\ remanent < Whole(100)
            /\ amount % Whole(100) = 0 => (ceiling = amount /\ remanent = 0)
            /\ FSub(ceiling, remanent) = amount

\* C3, the part that the float arithmetic keeps: the ceiling is a multiple of 100
\* less than 100 above the amount, the remanent is at most 100, ceiling and
\* remanent are not below the amount and 0 unless amount / 100 underflows, and
\* whole amounts are exact
C3_CeilingPart ==
    (pc = "returned" /\ amount >= 0) =>
        LET ceiling == parsed[1]
            remanent == parsed[2]
        IN  /\ ceiling % Whole(100) = 0
            /\ ceiling - Whole(100) < amount
            /\ remanent <= Whole(100)
            /\ (amount = 0 \/ FDiv(amount, 100) > 0) =>
                  (ceiling >= amount /\ 0 <= remanent)
            /\ amount % Whole(100) = 0 => (ceiling = amount /\ remanent = 0)
            /\ amount % Unit = 0 =>
                  (remanent = ceiling - amount /\ remanent < Whole(100)
                   /\ FSub(ceiling, remanent) = amount)

(***************************************************************************)
(* C4.  apply_p_rules adds to each transaction's current remanent the sum  *)
(* of extra over every bonus period containing its date, each listed       *)
(* period counted once (a period listed twice counts twice); no matching   *)
(* period adds zero.                                                       *)
(***************************************************************************)
C4_BonusAdditive ==
    [][pc = "p" =>
        /\ Len(step') = Len(step)
        /\ \A i \in 1..Len(step) :
              step'[i][4] = step[i][4]
                            + ExtraOver(p_periods, Matches(p_periods, step[i][1]))]_vars

\* one transaction with the same bonus period listed twice and a third overlapping
\* it, next to a transaction that no bonus period matches
C4_Witness ==
    /\ pc = "k"
    /\ q_periods = <<>>
    /\ \E i, n \in 1..Len(step) : \E j, k, l \in Matches(p_periods, step[i][1]) :
          /\ j < k
          /\ p_periods[j] = p_periods[k]
          /\ p_periods[l] # p_periods[j]
          /\ step[i][4] = step[i][3] - step[i][2] + 2 * p_periods[j].extra + p_periods[l].extra
          /\ Matches(p_periods, step[n][1]) = {}
          /\ step[n][4] = step[n][3] - step[n][2]

(***************************************************************************)
(* C5.  aggregate_k_periods returns one row per window, in the order       *)
(* given; a row's amount is the sum of the remanents of the transactions   *)
(* dated within the window: 0 for a window matching none, and a            *)
(* transaction in several windows counts in full in each.                  *)
(***************************************************************************)
C5_OneRowPerWindow ==
    pc = "done" =>
        /\ Len(k_sums) = Len(k_periods)
        /\ \A j \in 1..Len(k_periods) :
              /\ k_sums[j][1] = k_periods[j].start
              /\ k_sums[j][2] = k_periods[j].end
              /\ k_sums[j][3] = RemanentOver(step, InWindow(step, k_periods[j]))
              /\ InWindow(step, k_periods[j]) = {} => k_sums[j][3] = 0

\* an empty window listed between two different windows that share a transaction
C5_Witness ==
    /\ pc = "done"
    /\ Len(k_periods) = 3
    /\ k_periods[1] # k_periods[3]
    /\ InWindow(step, k_periods[2]) = {}
    /\ k_sums[2][3] = 0
    /\ \E i \in InWindow(step, k_periods[1]) \cap InWindow(step, k_periods[3]) :
          /\ step[i][4] > 0
          /\ k_sums[1][3] >= step[i][4]
          /\ k_sums[3][3] = step[i][4]
          /\ k_sums[1][3] > k_sums[3][3]

(***************************************************************************)
(* C6.  tax_on_income is the progressive slab tax: 0% of the part of the   *)
(* income up to 700,000, 10% of the part between 700,000 and 1,000,000,    *)
(* 15% up to 1,200,000, 20% up to 1,500,000 and 30% of the part above;     *)
(* hence 0 at 700,000, 30,000 at 1,000,000, 60,000 at 1,200,000 and        *)
(* 120,000 at 1,500,000; an income <= 0 gives 0.                           *)
(***************************************************************************)
\* the part of income inc lying between lo and hi
Band(inc, lo, hi) ==
    IF inc <= lo THEN 0 ELSE IF inc >= hi THEN hi - lo ELSE inc - lo

\* pct percent of x, for x a multiple of a tenth of a rupee
Percent(pct, x) == pct * (x \div 100)

SlabTax(inc) ==
    Percent(10, Band(inc, Rupees(700000), Rupees(1000000)))
    + Percent(15, Band(inc, Rupees(1000000), Rupees(1200000)))
    + Percent(20, Band(inc, Rupees(1200000), Rupees(1500000)))
    + Percent(30, IF inc > Rupees(1500000) THEN inc - Rupees(1500000) ELSE 0)

C6_ProgressiveSlabs ==
    pc = "returned" =>
        /\ tax = SlabTax(income)
        /\ income <= 0 => tax = 0
        /\ income = Rupees(700000) => tax = 0
        /\ income = Rupees(1000000) => tax = Rupees(30000)
        /\ income = Rupees(1200000) => tax = Rupees(60000)
        /\ income = Rupees(1500000) => tax = Rupees(120000)

\* an income in the top band, taxed band by band
C6_Witness ==
    /\ pc = "returned"
    /\ income = Rupees(2100000)
    /\ tax = Rupees(120000) + Rupees(180000)

(***************************************************************************)
(* C7.  tax_on_income is non-decreasing: x <= y implies                    *)
(* tax_on_income(x) <= tax_on_income(y), negative and zero incomes and     *)
(* incomes on a slab bound included; and tax_on_income(0) = 0.             *)
(***************************************************************************)
C7_TaxMonotone ==
    pc = "returned" =>
        /\ income <= other_income => tax <= other_tax
        /\ income = 0 => tax = 0

\* an income on a slab bound against the income one rupee above it
C7_Witness ==
    /\ pc = "returned"
    /\ income = Rupees(1000000)
    /\ other_income = Rupees(1000001)
    /\ tax < other_tax

(***************************************************************************)
(* C8.  nps_deduction is the smallest of invested, 10% of annual_income    *)
(* and 200,000, so it never exceeds 200,000.                               *)
(***************************************************************************)
C8_DeductionIsMinOfThree ==
    pc = "returned" =>
        /\ deduction <= invested
        /\ 10 * deduction <= income
        /\ deduction <= Rupees(200000)
        /\ \/ deduction = invested
           \/ 10 * deduction = income
           \/ deduction = Rupees(200000)

\* the absolute cap is the smallest of the three
C8_Witness ==
    /\ pc = "returned"
    /\ invested > Rupees(200000)
    /\ income > 10 * Rupees(200000)
    /\ deduction = Rupees(200000)

(***************************************************************************)
(* C9.  tax_benefit is >= 0 for every deduction >= 0 and every annual      *)
(* income, and is 0 whenever the annual income is at most 700,000.         *)
(***************************************************************************)
C9_BenefitNonNegative ==
    (pc = "returned" /\ deduction >= 0) =>
        /\ benefit >= 0
        /\ income <= Rupees(700000) => benefit = 0

\* a deduction that takes the income across a slab bound saves tax
C9_Witness ==
    /\ pc = "returned"
    /\ deduction > 0
    /\ income > Rupees(1000000)
    /\ income - deduction < Rupees(1000000)
    /\ benefit > 0

(***************************************************************************)
(* C10.  The order of the two rule steps matters.  For a transaction whose *)
(* date lies in an override period, override-then-bonus leaves fixed +     *)
(* extra and bonus-then-override leaves fixed, which differ when the       *)
(* matching bonus periods add a positive total; for a transaction in no    *)
(* override period the two orders leave the same remanent.                 *)
(***************************************************************************)
C10_OrderMatters ==
    pc = "compared" =>
        /\ Len(swapped) = Len(step)
        /\ \A i \in 1..Len(step) :
              LET d     == step[i][1]
                  extra == ExtraOver(p_periods, Matches(p_periods, d))
              IN  IF Matches(q_periods, d) # {}
                  THEN \E j \in 1..Len(q_periods) :
                          /\ Wins(q_periods, d, j)
                          /\ step[i][4] = q_periods[j].fixed + extra
                          /\ swapped[i][4] = q_periods[j].fixed
                          /\ extra > 0 => step[i][4] # swapped[i][4]
                  ELSE step[i][4] = swapped[i][4]

\* an overridden transaction with a positive bonus beside one that is not overridden
C10_Witness ==
    /\ pc = "compared"
    /\ \E i, n \in 1..Len(step) :
          /\ Matches(q_periods, step[i][1]) # {}
          /\ ExtraOver(p_periods, Matches(p_periods, step[i][1])) > 0
          /\ step[i][4] > swapped[i][4]
          /\ Matches(q_periods, step[n][1]) = {}
          /\ Matches(p_periods, step[n][1]) # {}
          /\ step[n][4] = swapped[n][4]

(***************************************************************************)
(* C12.  years_to_retirement(age) is 60 - age for every age < 60 and 5 for *)
(* every age >= 60; so for every age >= 0 the horizon of compute_return is *)
(* at least 1 and its calls of compound_amount and inflation_adjust take   *)
(* the compounding branch, never the years <= 0 branch, which returns the  *)
(* first argument unchanged.                                               *)
(***************************************************************************)
C12_HorizonAtLeastOne ==
    /\ pc = "compute_return returned" =>
          /\ age < 60 => years = 60 - age
          /\ age >= 60 => years = 5
          /\ age >= 0 =>
                /\ years >= 1
                /\ future = MulDiv(principal, Power(rate, years), RateUnit)
                /\ real = MulDiv(future, RateUnit, Power(inflation, years))
    /\ (pc \in {"inflation_adjust", "inflation_adjust returned"} /\ years <= 0) =>
          future = principal
    /\ (pc = "inflation_adjust returned" /\ years <= 0) => real = future

\* the last year before 60: one year of growth
C12_Witness ==
    /\ pc = "compute_return returned"
    /\ age = 59
    /\ years = 1
    /\ kind = "nps"
    /\ principal = Rupees(145)
    /\ future = Rupees(145) + 10310

\* ages 60 and 119 have the horizon 5, and a direct call with years = 0 returns
\* its argument
C12_WitnessFloor ==
    \/ pc = "compute_return returned" /\ age \in {60, AgeLimit - 1} /\ years = 5
    \/ pc = "inflation_adjust returned" /\ years = 0 /\ principal > 0 /\ real = principal

(***************************************************************************)
(* C11, as stated.  compute_return takes years = years_to_retirement(age)  *)
(* and the product's fixed rate for both steps: it compounds the principal *)
(* at that rate over the years and discounts the result at that same rate  *)
(* over the years.                                                         *)
(***************************************************************************)
C11_ProductRateForBoth ==
    pc = "compute_return returned" =>
        LET product == IF kind = "nps" THEN NPS_RATE ELSE INDEX_RATE
        IN  /\ years = years_to_retirement(age)
            /\ future = compound_amount(principal, product, years)
            /\ real = inflation_adjust(future, product, years)

(***************************************************************************)
(* C11, amended.  compute_return takes years = years_to_retirement(age)    *)
(* for both steps; it compounds the principal at the product's fixed rate  *)
(* and discounts the result at the inflation rate it was passed.  For      *)
(* "nps" the profit is real - principal and the tax benefit is             *)
(* tax_benefit(annual_income, nps_deduction(principal, annual_income));    *)
(* for "index" the profit is the real value, the tax benefit is None and   *)
(* no deduction is computed, whatever the annual income.                   *)
(***************************************************************************)
C11_ReturnComposition ==
    pc = "compute_return returned" =>
        LET product == IF kind = "nps" THEN NPS_RATE ELSE INDEX_RATE
            n       == IF age >= 60 THEN 5 ELSE 60 - age
        IN  /\ years = n
            /\ rate = product
            /\ future = MulDiv(principal, Power(product, n), RateUnit)
            /\ real = MulDiv(future, RateUnit, Power(inflation, n))
            /\ kind = "nps" =>
                  /\ profit = real - principal
                  /\ deduction = Some(Min(Min(principal, income \div 10), NPS_MAX_DEDUCTION))
                  /\ tax_ben = Some(tax_on_income(income)
                                    - tax_on_income(income - deduction[1]))
            /\ kind = "index" =>
                  /\ profit = real
                  /\ deduction = None
                  /\ tax_ben = None

\* the reference call: principal 145, age 29, inflation 5.5 %, income 600000 gives a
\* profit within 2 of 86.88 and a tax benefit of 0
C11_Witness ==
    /\ pc = "compute_return returned"
    /\ kind = "nps"
    /\ principal = Rupees(145)
    /\ age = 29
    /\ inflation = 550
    /\ income = Rupees(600000)
    /\ years = 31
    /\ Abs(profit - 86880) < Rupees(2)
    /\ tax_ben = Some(0)

\* the index product on the same principal, with an income that would earn a benefit:
\* real value within 30 of 1829.5, no benefit
C11_WitnessIndex ==
    /\ pc = "compute_return returned"
    /\ kind = "index"
    /\ principal = Rupees(145)
    /\ age = 29
    /\ inflation = 550
    /\ income = Rupees(800000)
    /\ Abs(profit - 1829500) < Rupees(30)
    /\ tax_ben = None
    /\ tax_benefit(income, nps_deduction(principal, income)) > 0

(***************************************************************************)
(* C13.  Every transaction list that reaches the rule pipeline through an  *)
(* endpoint has been screened first: on /returns:nps, /returns:index and   *)
(* /transactions:filter alike, no transaction with a negative amount and   *)
(* no repeated (date, amount) is among the transactions the windows are    *)
(* summed over.                                                            *)
(***************************************************************************)
Key(t) == <<t[1], t[2]>>

C13_ScreenedBeforeCore ==
    pc = "responded" =>
        \A i \in 1..Len(step) :
            /\ step[i][2] >= 0
            /\ \A j \in 1..(i - 1) : Key(step[j]) # Key(step[i])

\* C13, the part that holds: /transactions:filter screens its transactions, and what
\* /returns:nps and /returns:index hand to the pipeline is the request's list, whole
C13_OnlyFilterScreens ==
    pc = "responded" =>
        IF endpoint = "/transactions:filter"
        THEN \A i \in 1..Len(step) :
                /\ step[i][2] >= 0
                /\ \A j \in 1..(i - 1) : Key(step[j]) # Key(step[i])
        ELSE /\ Len(step) = Len(body_transactions)
             /\ \A i \in 1..Len(step) : step[i][2] = body_transactions[i][2]

\* a negative amount and a repeated transaction summed into a window of /returns:nps
C13_WitnessUnscreened ==
    /\ pc = "responded"
    /\ endpoint = "/returns:nps"
    /\ q_periods = <<>>
    /\ p_periods = <<>>
    /\ Len(step) = 3
    /\ step[1][2] < 0
    /\ Key(step[2]) = Key(step[3])
    /\ Len(k_sums) = 1
    /\ k_sums[1][3] = FAdd(FAdd(step[1][4], step[2][4]), step[3][4])

(***************************************************************************)
(* C17.  _filter_classify partitions its input: every input transaction is *)
(* in exactly one of valid and invalid, each list in input order.  A       *)
(* negative amount is always invalid and never recorded as seen; among the *)
(* non-negative transactions with the same (date, amount) the first is     *)
(* valid and every later one is invalid as a duplicate, so valid holds no  *)
(* two transactions with equal (date, amount).                             *)
(***************************************************************************)
\* the elements of seq at the indices of I, from index i on, in order
RECURSIVE SubSeqAt(_, _, _)
SubSeqAt(seq, I, i) ==
    IF i > Len(seq) THEN <<>>
    ELSE (IF i \in I THEN <<seq[i]>> ELSE <<>>) \o SubSeqAt(seq, I, i + 1)

C17_FilterPartitions ==
    (pc = "responded" /\ endpoint = "/transactions:filter") =>
        LET inputs == body_transactions
            N      == 1..Len(inputs)
            Neg    == {i \in N : inputs[i][2] < 0}
            Dup    == {i \in N \ Neg :
                         \E j \in 1..(i - 1) : j \notin Neg /\ Key(inputs[j]) = Key(inputs[i])}
            reject == [i \in N |->
                         <<inputs[i][1], inputs[i][2],
                           IF i \in Neg THEN "Negative amounts are not allowed"
                                        ELSE "Duplicate transaction">>]
        IN  /\ valid_inputs = SubSeqAt(inputs, N \ (Neg \cup Dup), 1)
            /\ invalid = SubSeqAt(reject, Neg \cup Dup, 1)
            /\ Len(valid_inputs) + Len(invalid) = Len(inputs)
            /\ \A key \in seen : key[2] >= 0
            /\ \A i, j \in 1..Len(valid_inputs) :
                  i # j => Key(valid_inputs[i]) # Key(valid_inputs[j])

\* a transaction given three times: the first is valid, the other two are duplicates
C17_Witness ==
    /\ pc = "responded"
    /\ endpoint = "/transactions:filter"
    /\ Len(body_transactions) = 3
    /\ body_transactions[1][2] >= 0
    /\ Key(body_transactions[2]) = Key(body_transactions[1])
    /\ Key(body_transactions[3]) = Key(body_transactions[1])
    /\ valid_inputs = <<body_transactions[1]>>
    /\ Len(invalid) = 2
    /\ invalid[1][3] = "Duplicate transaction"
    /\ invalid[2][3] = "Duplicate transaction"

\* a negative amount between a transaction and its repetition
C17_WitnessNegative ==
    /\ pc = "responded"
    /\ endpoint = "/transactions:filter"
    /\ Len(body_transactions) = 3
    /\ body_transactions[2][2] < 0
    /\ Key(body_transactions[3]) = Key(body_transactions[1])
    /\ Len(valid_inputs) = 1
    /\ invalid[1][3] = "Negative amounts are not allowed"
    /\ invalid[2][3] = "Duplicate transaction"
    /\ Cardinality(seen) = 1

(***************************************************************************)
(* C14.  No pipeline operation mutates its input lists or shared state:    *)
(* every list that exists when an operation runs has the same content      *)
(* afterwards.  Each operation returns a new sequence, also on the         *)
(* empty-period fast path: its result lives at an address no list had      *)
(* before.  Two invocations interleaved in any order each get, from every  *)
(* operation, exactly the result the operation returns when run alone.     *)
(***************************************************************************)
\* what the operation before position `at` returns in a run of its own
Alone(at) ==
    LET parsed_ == parse_expenses(expenses)
        after_q == apply_q_rules(parsed_, q_periods)
        after_p == apply_p_rules(after_q, p_periods)
    IN  CASE at = "q" -> parsed_
          [] at = "p" -> after_q
          [] at = "k" -> after_p
          [] at = "done" -> aggregate_k_periods(after_p, k_periods)

C14_NoSharedMutation ==
    [][pc = "calls" =>
         /\ \A a \in 1..Len(heap) : heap'[a] = heap[a]
         /\ Len(heap') = Len(heap) + 1
         /\ \A i \in Invocations :
               /\ call_step'[i] # call_step[i] => call_step'[i] = Len(heap')
               /\ call_k_sums'[i] # call_k_sums[i] => call_k_sums'[i] = Len(heap')
               /\ call_pc'[i] # call_pc[i] => heap'[Len(heap')] = Alone(call_pc'[i])
               /\ call_pc'[i] = "done" =>
                     /\ heap'[call_step'[i]] = Alone("k")
                     /\ heap'[call_k_sums'[i]] = Alone("done")
         /\ heap'[ExpensesAt] = expenses
         /\ heap'[QAt] = q_periods
         /\ heap'[PAt] = p_periods
         /\ heap'[KAt] = k_periods]_vars

\* the two invocations taking turns, operation by operation, on the fast path of
\* apply_q_rules: eight lists are new, and no two results share one
C14_Witness ==
    /\ pc = "calls"
    /\ call_pc = [i \in Invocations |-> "done"]
    /\ q_periods = <<>>
    /\ expenses # <<>>
    /\ p_periods # <<>>
    /\ k_periods # <<>>
    /\ call_step = [i \in Invocations |-> 8 + i]
    /\ call_k_sums = [i \in Invocations |-> 10 + i]
    /\ Len(heap) = 12
    /\ heap[call_k_sums[1]] = heap[call_k_sums[2]]
    /\ heap[5] = heap[7]

(***************************************************************************)
(* C15.  apply_q_rules and apply_p_rules change nothing but the remanent   *)
(* of matched transactions: the output has as many transactions as the     *)
(* input, in the same order, each with its date, amount and ceiling        *)
(* unchanged; a transaction in no period keeps its remanent; and with an   *)
(* empty period list the output equals the input.                          *)
(***************************************************************************)
C15_OnlyRemanentChanges ==
    [][(pc = "q" \/ pc = "p") =>
         (LET periods == IF pc = "q" THEN q_periods ELSE p_periods
          IN  /\ Len(step') = Len(step)
              /\ \A i \in 1..Len(step) :
                    /\ step'[i][1] = step[i][1]
                    /\ step'[i][2] = step[i][2]
                    /\ step'[i][3] = step[i][3]
                    /\ Matches(periods, step[i][1]) = {} => step'[i][4] = step[i][4]
              /\ (periods = <<>> => step' = step))]_vars

\* after both rule steps: a transaction that both changed beside one in no period
\* at all, which still has the remanent parse_expenses gave it
C15_Witness ==
    /\ pc = "k"
    /\ \E i, n \in 1..Len(step) :
          /\ Matches(q_periods, step[i][1]) # {}
          /\ Matches(p_periods, step[i][1]) # {}
          /\ step[i][4] # step[i][3] - step[i][2]
          /\ Matches(q_periods, step[n][1]) = {}
          /\ Matches(p_periods, step[n][1]) = {}
          /\ q_periods # <<>>
          /\ p_periods # <<>>
          /\ step[n][4] = step[n][3] - step[n][2]
          /\ step[n][4] > 0

(***************************************************************************)
(* C16.  Interval containment is inclusive on both ends for override       *)
(* periods, bonus periods and windows alike: a transaction dated exactly   *)
(* at the start or exactly at the end of a period is matched by it, and a  *)
(* transaction dated one second before the start or one second after the  *)
(* end is not.                                                             *)
(***************************************************************************)
\* d is the first or the last instant of the period
OnEdge(period, d) ==
    period.start <= period.end /\ (d = period.start \/ d = period.end)

\* d is one second before the period's start or one second after its end
OneSecondOff(period, d) ==
    period.start <= period.end /\ (d = period.start - Sec(1) \/ d = period.end + Sec(1))

\* every period of ps has d on an edge or one second off
AllAtEdges(ps, d) ==
    \A j \in 1..Len(ps) : OnEdge(ps[j], d) \/ OneSecondOff(ps[j], d)

\* the positions of the periods of ps with d on an edge
EdgeHits(ps, d) == {j \in 1..Len(ps) : OnEdge(ps[j], d)}

C16_InclusiveBothEnds ==
    /\ pc = "p" =>
          \A i \in 1..Len(step) :
              LET d == step[i][1]
              IN  AllAtEdges(q_periods, d) =>
                    IF EdgeHits(q_periods, d) = {}
                    THEN step[i][4] = step[i][3] - step[i][2]
                    ELSE \E j \in EdgeHits(q_periods, d) : step[i][4] = q_periods[j].fixed
    /\ pc = "k" =>
          \A i \in 1..Len(step) :
              LET d == step[i][1]
              IN  AllAtEdges(p_periods, d) =>
                    step[i][4] = OverrideBase(step[i], q_periods)
                                    + ExtraOver(p_periods, EdgeHits(p_periods, d))
    /\ pc = "done" =>
          \A j \in 1..Len(k_periods) :
              (\A i \in 1..Len(step) :
                    OnEdge(k_periods[j], step[i][1]) \/ OneSecondOff(k_periods[j], step[i][1]))
              => k_sums[j][3] =
                    RemanentOver(step, {i \in 1..Len(step) : OnEdge(k_periods[j], step[i][1])})

\* one override period, a transaction on its last second and one a second later; the
\* first is overridden and both are summed by a window that ends on the second one
C16_Witness ==
    /\ pc = "done"
    /\ Len(q_periods) = 1
    /\ p_periods = <<>>
    /\ Len(k_periods) = 1
    /\ Len(step) = 2
    /\ step[1][1] = q_periods[1].end
    /\ step[1][1] > q_periods[1].start
    /\ step[1][4] = q_periods[1].fixed
    /\ step[2][1] = q_periods[1].end + Sec(1)
    /\ step[2][4] = step[2][3] - step[2][2]
    /\ step[2][1] = k_periods[1].end
    /\ k_sums[1][3] = step[1][4] + step[2][4]
    /\ k_sums[1][3] > 0

\* a bonus period and a window that start on a transaction's second and begin one
\* second after another's
C16_WitnessStart ==
    /\ pc = "done"
    /\ q_periods = <<>>
    /\ Len(p_periods) = 1
    /\ Len(k_periods) = 1
    /\ Len(step) = 2
    /\ step[2][1] = p_periods[1].start
    /\ step[2][4] = step[2][3] - step[2][2] + p_periods[1].extra
    /\ step[1][1] = p_periods[1].start - Sec(1)
    /\ step[1][4] = step[1][3] - step[1][2]
    /\ k_periods[1].start = step[2][1]
    /\ k_periods[1].end = step[2][1]
    /\ k_sums[1][3] = step[2][4]

(***************************************************************************)
(* C18.  When every expense amount, every override fixed and every bonus   *)
(* extra is >= 0, every remanent that run_pipeline produces is >= 0, and   *)
(* every window sum is >= 0 and at most the sum of the final remanents of  *)
(* all transactions.                                                       *)
(***************************************************************************)
NonNegativeInputs ==
    /\ \A i \in 1..Len(expenses) : expenses[i][2] >= 0
    /\ \A j \in 1..Len(q_periods) : q_periods[j].fixed >= 0
    /\ \A j \in 1..Len(p_periods) : p_periods[j].extra >= 0

C18_NonNegativeRemanents ==
    (pc = "done" /\ NonNegativeInputs) =>
        /\ \A i \in 1..Len(step) : step[i][4] >= 0
        /\ \A j \in 1..Len(k_sums) :
              /\ k_sums[j][3] >= 0
              /\ k_sums[j][3] <= SumField(step, 4, 0)

\* C18, the part that holds: the same, when no amount is so small that amount / 100
\* underflows to 0
C18_NonNegativeUnlessUnderflow ==
    (/\ pc = "done"
     /\ NonNegativeInputs
     /\ \A i \in 1..Len(expenses) : expenses[i][2] = 0 \/ FDiv(expenses[i][2], 100) > 0) =>
        /\ \A i \in 1..Len(step) : step[i][4] >= 0
        /\ \A j \in 1..Len(k_sums) :
              /\ k_sums[j][3] >= 0
              /\ k_sums[j][3] <= SumField(step, 4, 0)

\* the least positive float as the only expense of a window: a negative window sum
C18_WitnessUnderflow ==
    /\ pc = "done"
    /\ expenses = << <<Sec(0), 1>> >>
    /\ q_periods = <<>>
    /\ p_periods = <<>>
    /\ Len(k_sums) = 1
    /\ step[1][3] = 0
    /\ step[1][4] = -1
    /\ k_sums[1][3] = -1

====
